---- MODULE Spec2Model ----
(***************************************************************************)
(* Model of src-tauri/src/main.rs of CrossWatch: the credential document   *)
(* on disk (read_cfg / write_cfg), the commands that read and write it,    *)
(* the Plex PIN poll and the SIMKL loopback listener with its token        *)
(* exchange.  Two threads of control touch the document: the command       *)
(* handler invoked by the front end ("ui") and the background task          *)
(* spawned by cmd_simkl_start_listener ("task").  File-system calls are     *)
(* the atomic steps; fs::write is a truncation followed by the data.        *)
(***************************************************************************)
EXTENDS Integers, Sequences, FiniteSets, TLC

VARIABLES
  fs,        \* path -> file content
  writable,  \* path -> whether fs::write to it succeeds (environment)
  pc,        \* thread -> position
  ret,       \* thread -> position to continue at when read_cfg / write_cfg returns
  rres,      \* thread -> Result<Config> of the thread's last read_cfg
  wcfg,      \* thread -> the Config handed to write_cfg
  wres,      \* thread -> whether the thread's last write_cfg returned Ok
  raw,       \* thread -> the string s being written by read_cfg / write_cfg
  cand,      \* thread -> the legacy candidate read_cfg is migrating
  uiArg,     \* the JSON argument of the running cmd_write_config
  polled,    \* what the last cmd_plex_poll_pin returned to the front end
  pin,       \* the last other PIN command: what the service answered and
             \* what the command returned to the front end
  held,      \* the document the front end got from its last cmd_read_config
  saved,     \* the argument of the last cmd_write_config whose bytes reached the file
  uiCmds,    \* number of commands the front end has invoked
  port,      \* whether 127.0.0.1:8787 is bound
  inst,      \* number of listener instances bound so far
  before,    \* the text on record when the running listener instance was started
  binds,     \* number of cmd_simkl_start_listener calls the bind refused
  rq,        \* what server.recv() gave the last listener instance
  resp,      \* what the token endpoint answered the last listener instance
  netCalls,  \* token requests issued by the current listener instance
  events     \* the simkl_linked events emitted, in order

vars == <<fs, writable, pc, ret, rres, wcfg, wres, raw, cand, uiArg, polled, pin,
          held, saved, uiCmds, port, inst, before, binds, rq, resp, netCalls, events>>

fsVars == <<fs, writable>>
callVars == <<pc, ret, rres, wcfg, wres, raw, cand>>
uiVars == <<uiArg, polled, pin, held, saved, uiCmds>>
taskVars == <<port, inst, before, binds, rq, resp, netCalls, events>>

----------------------------------------------------------------------------
(* Bounds of the model *)

MaxCmds == 3
Procs == {"ui", "task"}

----------------------------------------------------------------------------
(* Option<T>: None is the empty sequence, Some(x) the one-element one *)

None == <<>>
Some(x) == <<x>>
IsSome(o) == Len(o) = 1
Unwrap(o) == o[1]

----------------------------------------------------------------------------
(* i64.  The value a * 2^42 + b * 2^21 + c is written <<a, b, c>>, with     *)
(* 0 <= b, c < 2^21 and, for a value that fits 64 bits, -2^21 <= a < 2^21.  *)

Limb == 2097152

\* the i64 of a small natural number
I64Of(n) == <<0, n \div Limb, n % Limb>>

I64_MAX == <<Limb - 1, Limb - 1, Limb - 1>>

\* the sum of two i64 values as an integer, which may not fit 64 bits
ExactSum(x, y) ==
  LET c == x[3] + y[3]
      b == x[2] + y[2] + (c \div Limb)
      a == x[1] + y[1] + (b \div Limb)
  IN  <<a, b % Limb, c % Limb>>

\* line 301, the + of two i64 in a build without overflow checks: the sum
\* modulo 2^64
i64_add(x, y) ==
  LET s == ExactSum(x, y)
  IN  <<((s[1] + 3 * Limb) % (2 * Limb)) - Limb, s[2], s[3]>>

----------------------------------------------------------------------------
(* The Config structure and its serde defaults *)

DefaultPlexCfg == [account_token |-> None]

DefaultSimklCfg ==
  [client_id |-> "", client_secret |-> "", access_token |-> None,
   refresh_token |-> None, token_expires_at |-> None]

DefaultConfig == [plex |-> None, simkl |-> None, sync |-> None, runtime |-> None]

unwrap_or_default(o, d) == IF IsSome(o) THEN Unwrap(o) ELSE d

----------------------------------------------------------------------------
(* Paths.  A path is the sequence of its components. *)

cfg_path == <<"CrossWatch", "config.json">>

project_root_cfg == <<"config.json">>

legacy_cfg_candidates ==
  << <<"config.json">>,
     <<"resources", "config.json">>,
     <<"src-tauri", "resources", "config.json">> >>

LegacyPaths == {legacy_cfg_candidates[i] : i \in DOMAIN legacy_cfg_candidates}

Paths == {cfg_path} \cup LegacyPaths

\* cand.to_string_lossy().contains("src-tauri")
ContainsSrcTauri(p) == \E i \in DOMAIN p : p[i] = "src-tauri"

----------------------------------------------------------------------------
(* File contents and JSON text.  A JSON text carries the fields Config      *)
(* names (cfg) and whether it also carries fields Config does not name      *)
(* (extra).  "empty" is a file truncated by fs::write and not yet filled.   *)

NoFile == [kind |-> "absent", cfg |-> DefaultConfig, extra |-> FALSE]
Truncated == [kind |-> "empty", cfg |-> DefaultConfig, extra |-> FALSE]
Garbage == [kind |-> "garbage", cfg |-> DefaultConfig, extra |-> FALSE]
Json(c, x) == [kind |-> "json", cfg |-> c, extra |-> x]

Exists(f, p) == f[p].kind # "absent"

\* serde_json::from_str::<Config>: fields Config does not name are dropped,
\* anything that is not a JSON object of the right shape is an error
from_str(s) ==
  IF s.kind = "json" THEN [ok |-> TRUE, cfg |-> s.cfg]
                     ELSE [ok |-> FALSE, cfg |-> DefaultConfig]

\* serde_json::to_string_pretty(cfg): exactly the fields of Config
to_string_pretty(c) == Json(c, FALSE)

\* Result<Config> of read_cfg, with the place the text came from
ReadOk(c, p, k) == [ok |-> TRUE, cfg |-> c, from |-> p, saw |-> k]
ReadErr(p, k) == [ok |-> FALSE, cfg |-> DefaultConfig, from |-> p, saw |-> k]
NoRead == [ok |-> FALSE, cfg |-> DefaultConfig, from |-> <<>>, saw |-> "unread"]

----------------------------------------------------------------------------
(* Calling and returning.  A thread calls read_cfg or write_cfg by moving   *)
(* to its first step and naming the place to continue at.                   *)

Goto(p, l) == pc' = [pc EXCEPT ![p] = l]

Return(p) == pc' = [pc EXCEPT ![p] = ret[p]]


\* fs::write(path, s): create or truncate the file, then write the bytes
Truncate(p, path) == fs' = [fs EXCEPT ![path] = Truncated]

\* a write that puts the document of s, serialized anew, in place of s
FillNormalised(p, path) ==
  fs' = [fs EXCEPT ![path] = to_string_pretty(from_str(raw[p]).cfg)]

Fill(p, path) == fs' = [fs EXCEPT ![path] = raw[p]]

----------------------------------------------------------------------------
(* read_cfg *)

\* fs::read_to_string(path)? followed by serde_json::from_str(&s)?
ReadParsed(path) ==
  LET r == from_str(fs[path])
  IN  IF r.ok THEN ReadOk(r.cfg, path, fs[path].kind)
              ELSE ReadErr(path, fs[path].kind)

\* lines 114-115: the first legacy candidate that exists among the files f,
\* in the order of the list, or <<>>
FirstLegacyOf(f) ==
  LET hits == {i \in DOMAIN legacy_cfg_candidates :
                 Exists(f, legacy_cfg_candidates[i])}
  IN  IF hits = {} THEN <<>>
      ELSE legacy_cfg_candidates[CHOOSE i \in hits : \A j \in hits : i <= j]

FirstLegacy == FirstLegacyOf(fs)

\* lines 108-117 and 128: the text a read_cfg would take its document from:
\* the canonical file, else the first candidate that exists, else none
OnRecord(f) ==
  IF Exists(f, cfg_path) THEN f[cfg_path]
  ELSE IF FirstLegacyOf(f) # <<>> THEN f[FirstLegacyOf(f)]
  ELSE NoFile

\* a migration that removes whichever candidate it copied
RemovesMigratedAlways(c) == TRUE

\* lines 122-124: whether read_cfg removes the candidate it migrated
RemovesMigrated(c) == ContainsSrcTauri(c)

\* a read_cfg for which a missing document is an error
NoDocumentErr == ReadErr(<<>>, "absent")

\* line 128, Ok(Config::default()): no file at the canonical path nor at any
\* candidate
NoDocument == ReadOk(DefaultConfig, <<>>, "absent")

\* lines 108-113: the canonical file, when it exists, is the document
read_cfg_canon(p) ==
  /\ pc[p] = "rc_canon"
  /\ IF Exists(fs, cfg_path)
       THEN /\ rres' = [rres EXCEPT ![p] = ReadParsed(cfg_path)]
            /\ Return(p)
       ELSE /\ Goto(p, "rc_legacy")
            /\ UNCHANGED rres
  /\ UNCHANGED <<fsVars, ret, wcfg, wres, raw, cand, uiVars, taskVars>>

\* lines 114-117 and 128: the first existing candidate is read and parsed;
\* with no candidate the result is Config::default()
read_cfg_legacy(p) ==
  /\ pc[p] = "rc_legacy"
  /\ LET c == FirstLegacy IN
       IF c = <<>>
         THEN /\ rres' = [rres EXCEPT ![p] = NoDocument]
              /\ Return(p)
              /\ UNCHANGED <<raw, cand>>
         ELSE IF ~from_str(fs[c]).ok
           THEN /\ rres' = [rres EXCEPT ![p] = ReadErr(c, fs[c].kind)]
                /\ Return(p)
                /\ UNCHANGED <<raw, cand>>
           ELSE /\ raw' = [raw EXCEPT ![p] = fs[c]]
                /\ cand' = [cand EXCEPT ![p] = c]
                /\ Goto(p, "rc_write")
                /\ UNCHANGED rres
  /\ UNCHANGED <<fsVars, ret, wcfg, wres, uiVars, taskVars>>

\* line 120, fs::write(&newp, &s)?: the open that truncates, or the error
read_cfg_write(p) ==
  /\ pc[p] = "rc_write"
  /\ IF writable[cfg_path]
       THEN /\ Truncate(p, cfg_path)
            /\ Goto(p, "rc_fill")
            /\ UNCHANGED <<rres, raw, cand>>
       ELSE /\ rres' = [rres EXCEPT ![p] = ReadErr(cand[p], "json")]
            /\ raw' = [raw EXCEPT ![p] = NoFile]
            /\ cand' = [cand EXCEPT ![p] = <<>>]
            /\ Return(p)
            /\ UNCHANGED fs
  /\ UNCHANGED <<writable, ret, wcfg, wres, uiVars, taskVars>>

\* line 120, the bytes of s reach the canonical file
read_cfg_fill(p) ==
  /\ pc[p] = "rc_fill"
  /\ Fill(p, cfg_path)
  /\ Goto(p, "rc_mirror")
  /\ UNCHANGED <<writable, ret, rres, wcfg, wres, raw, cand, uiVars, taskVars>>

\* line 121, let _ = fs::write(project_root_cfg(), &s): a failure is ignored
read_cfg_mirror(p) ==
  /\ pc[p] = "rc_mirror"
  /\ IF writable[project_root_cfg]
       THEN Truncate(p, project_root_cfg) /\ Goto(p, "rc_mirror_fill")
       ELSE UNCHANGED fs /\ Goto(p, "rc_remove")
  /\ UNCHANGED <<writable, ret, rres, wcfg, wres, raw, cand, uiVars, taskVars>>

read_cfg_mirror_fill(p) ==
  /\ pc[p] = "rc_mirror_fill"
  /\ Fill(p, project_root_cfg)
  /\ Goto(p, "rc_remove")
  /\ UNCHANGED <<writable, ret, rres, wcfg, wres, raw, cand, uiVars, taskVars>>

\* lines 122-125: the migrated candidate is removed when its path contains
\* "src-tauri", and the parsed document is returned
read_cfg_remove(p) ==
  /\ pc[p] = "rc_remove"
  /\ fs' = IF RemovesMigrated(cand[p]) THEN [fs EXCEPT ![cand[p]] = NoFile] ELSE fs
  /\ rres' = [rres EXCEPT ![p] = ReadOk(from_str(raw[p]).cfg, cand[p], "json")]
  /\ raw' = [raw EXCEPT ![p] = NoFile]
  /\ cand' = [cand EXCEPT ![p] = <<>>]
  /\ Return(p)
  /\ UNCHANGED <<writable, ret, wcfg, wres, uiVars, taskVars>>

----------------------------------------------------------------------------
(* write_cfg *)

\* lines 137-141: every candidate whose path contains "src-tauri" and that
\* exists is removed
RemoveSrcTauri(f) ==
  [q \in Paths |->
     IF q \in LegacyPaths /\ ContainsSrcTauri(q) /\ Exists(f, q) THEN NoFile ELSE f[q]]

\* lines 132-135: serialize, then fs::write(&p, &s)? opens the canonical file
write_cfg_write(p) ==
  /\ pc[p] = "wc_write"
  /\ IF writable[cfg_path]
       THEN /\ raw' = [raw EXCEPT ![p] = to_string_pretty(wcfg[p])]
            /\ Truncate(p, cfg_path)
            /\ Goto(p, "wc_fill")
            /\ UNCHANGED wres
       ELSE /\ wres' = [wres EXCEPT ![p] = FALSE]
            /\ Return(p)
            /\ UNCHANGED <<fs, raw>>
  /\ UNCHANGED <<writable, ret, rres, wcfg, cand, uiVars, taskVars>>

write_cfg_fill(p) ==
  /\ pc[p] = "wc_fill"
  /\ Fill(p, cfg_path)
  /\ Goto(p, "wc_mirror")
  /\ saved' = IF p = "ui" /\ ret[p] = "write_config_ret" THEN Some(uiArg) ELSE saved
  /\ UNCHANGED <<writable, ret, rres, wcfg, wres, raw, cand, uiArg, polled, pin, held,
                 uiCmds, taskVars>>

\* line 136, let _ = fs::write(project_root_cfg(), &s)
write_cfg_mirror(p) ==
  /\ pc[p] = "wc_mirror"
  /\ IF writable[project_root_cfg]
       THEN Truncate(p, project_root_cfg) /\ Goto(p, "wc_mirror_fill")
       ELSE UNCHANGED fs /\ Goto(p, "wc_remove")
  /\ UNCHANGED <<writable, ret, rres, wcfg, wres, raw, cand, uiVars, taskVars>>

write_cfg_mirror_fill(p) ==
  /\ pc[p] = "wc_mirror_fill"
  /\ Fill(p, project_root_cfg)
  /\ Goto(p, "wc_remove")
  /\ UNCHANGED <<writable, ret, rres, wcfg, wres, raw, cand, uiVars, taskVars>>

\* lines 137-142
write_cfg_remove(p) ==
  /\ pc[p] = "wc_remove"
  /\ fs' = RemoveSrcTauri(fs)
  /\ wres' = [wres EXCEPT ![p] = TRUE]
  /\ raw' = [raw EXCEPT ![p] = NoFile]
  /\ Return(p)
  /\ UNCHANGED <<writable, ret, rres, wcfg, cand, uiVars, taskVars>>

----------------------------------------------------------------------------
(* Commands of the front end *)

CallReadCfg(p, cont) ==
  /\ pc' = [pc EXCEPT ![p] = "rc_canon"]
  /\ ret' = [ret EXCEPT ![p] = cont]

CallWriteCfg(p, c, cont) ==
  /\ pc' = [pc EXCEPT ![p] = "wc_write"]
  /\ ret' = [ret EXCEPT ![p] = cont]
  /\ wcfg' = [wcfg EXCEPT ![p] = c]

\* cmd_read_config, line 149, the call
cmd_read_config ==
  /\ pc["ui"] = "idle"
  /\ uiCmds < MaxCmds
  /\ uiCmds' = uiCmds + 1
  /\ CallReadCfg("ui", "read_config_ret")
  /\ UNCHANGED <<fsVars, rres, wcfg, wres, raw, cand, uiArg, polled, pin, held, saved,
                 taskVars>>

\* cmd_read_config, line 149, the Config goes back to the front end as JSON
cmd_read_config_ret ==
  /\ pc["ui"] = "read_config_ret"
  /\ held' = IF rres["ui"].ok THEN Some(to_string_pretty(rres["ui"].cfg)) ELSE held
  /\ rres' = [rres EXCEPT !["ui"] = NoRead]
  /\ Goto("ui", "idle")
  /\ UNCHANGED <<fsVars, ret, wcfg, wres, raw, cand, uiArg, polled, pin, saved, uiCmds,
                 taskVars>>

CredsConfig ==
  [DefaultConfig EXCEPT !.simkl =
     Some([DefaultSimklCfg EXCEPT !.client_id = "cid", !.client_secret = "sec"])]

NoSecretConfig ==
  [DefaultConfig EXCEPT !.simkl = Some([DefaultSimklCfg EXCEPT !.client_id = "cid"])]

WithPlexToken(c, t) == [c EXCEPT !.plex = Some([account_token |-> Some(t)])]

\* the device-flow tokens d put into the service-B block of document c
WithDeviceTokens(c, d) ==
  [c EXCEPT !.simkl =
     Some([unwrap_or_default(c.simkl, DefaultSimklCfg) EXCEPT
             !.access_token = d.access_token,
             !.refresh_token = d.refresh_token,
             !.token_expires_at = d.expires_in])]

\* the last PIN command was a device poll that returned an access token
HoldsDeviceToken ==
  pin.cmd = "cmd_simkl_poll_pin" /\ IsSome(pin.out.access_token)

\* The documents the front end hands to cmd_write_config: the document it
\* loaded with a service-A token put in, or with the tokens a device poll
\* just returned, or a settings document that carries a field Config does
\* not name
WriteInputs ==
  (IF IsSome(held)
     THEN {Json(WithPlexToken(Unwrap(held).cfg, "tok-1"), Unwrap(held).extra)}
     ELSE {})
  \cup
  (IF IsSome(held) /\ HoldsDeviceToken
     THEN {Json(WithDeviceTokens(Unwrap(held).cfg, pin.out), Unwrap(held).extra)}
     ELSE {})
  \cup {Json(CredsConfig, TRUE)}

\* cmd_write_config, lines 153-154: the argument is deserialized into Config
cmd_write_config ==
  /\ pc["ui"] = "idle"
  /\ uiCmds < MaxCmds
  /\ uiCmds' = uiCmds + 1
  /\ \E j \in WriteInputs :
       /\ uiArg' = j
       /\ CallWriteCfg("ui", from_str(j).cfg, "write_config_ret")
  /\ UNCHANGED <<fsVars, rres, wres, raw, cand, polled, pin, held, saved, taskVars>>

cmd_write_config_ret ==
  /\ pc["ui"] = "write_config_ret"
  /\ uiArg' = NoFile
  /\ wcfg' = [wcfg EXCEPT !["ui"] = DefaultConfig]
  /\ Goto("ui", "idle")
  /\ UNCHANGED <<fsVars, ret, rres, wres, raw, cand, polled, pin, held, saved, uiCmds,
                 taskVars>>

----------------------------------------------------------------------------
(* cmd_plex_poll_pin *)

PollErr == [ok |-> FALSE, token |-> ""]
PollOk(t) == [ok |-> TRUE, token |-> t]

\* What plex.tv answers: no answer, a failure status, a body that is not JSON,
\* or a JSON body, the pin possibly under "pin", with the token fields
PlexResponses ==
  {[sent |-> FALSE, success |-> FALSE, json |-> FALSE, auth_token |-> None, authToken |-> None],
   [sent |-> TRUE, success |-> FALSE, json |-> FALSE, auth_token |-> None, authToken |-> None],
   [sent |-> TRUE, success |-> TRUE, json |-> FALSE, auth_token |-> None, authToken |-> None]}
  \cup
  {[sent |-> TRUE, success |-> TRUE, json |-> TRUE, auth_token |-> a, authToken |-> b] :
     a \in {None, Some("tok-1")}, b \in {None, Some("tok-2")}}

\* lines 248-255: the value cmd_plex_poll_pin returns
plex_poll_result(r) ==
  IF ~r.sent \/ ~r.success \/ ~r.json THEN PollErr
  ELSE IF IsSome(r.auth_token) THEN PollOk(Unwrap(r.auth_token))
  ELSE IF IsSome(r.authToken) THEN PollOk(Unwrap(r.authToken))
  ELSE PollOk("")

\* a poll that stores the token it found before it returns
cmd_plex_poll_pin_persisting ==
  /\ pc["ui"] = "idle"
  /\ uiCmds < MaxCmds
  /\ uiCmds' = uiCmds + 1
  /\ \E r \in PlexResponses :
       /\ polled' = plex_poll_result(r)
       /\ fs' = IF plex_poll_result(r).ok /\ plex_poll_result(r).token # ""
                 THEN [fs EXCEPT ![cfg_path] =
                         to_string_pretty(WithPlexToken(from_str(fs[cfg_path]).cfg,
                                                        plex_poll_result(r).token))]
                 ELSE fs
  /\ UNCHANGED <<writable, callVars, uiArg, pin, held, saved, taskVars>>

\* cmd_plex_poll_pin, lines 244-256
cmd_plex_poll_pin ==
  /\ pc["ui"] = "idle"
  /\ uiCmds < MaxCmds
  /\ uiCmds' = uiCmds + 1
  /\ \E r \in PlexResponses : polled' = plex_poll_result(r)
  /\ UNCHANGED <<fsVars, callVars, uiArg, pin, held, saved, taskVars>>

----------------------------------------------------------------------------
(* cmd_plex_create_pin, cmd_simkl_create_pin, cmd_simkl_poll_pin *)

NoPin == [cmd |-> "", answer |-> <<>>, out |-> <<>>]

\* What plex.tv answers to POST /pins.json: no answer, a failure status, a
\* body that is not JSON, or a JSON pin with or without id, code, expires_at
NoPlexPin ==
  [sent |-> TRUE, success |-> TRUE, json |-> FALSE, id |-> None, code |-> None,
   expires_at |-> None]

PlexPinAnswers ==
  {[NoPlexPin EXCEPT !.sent = FALSE, !.success = FALSE],
   [NoPlexPin EXCEPT !.success = FALSE],
   NoPlexPin,
   [NoPlexPin EXCEPT !.json = TRUE, !.id = Some(42), !.expires_at = Some("next week")]}
  \cup
  {[NoPlexPin EXCEPT !.json = TRUE, !.id = i, !.code = c, !.expires_at = e] :
     i \in {None, Some(42)}, c \in {None, Some("ABCD")},
     e \in {None, Some("2025-01-01T00:00:10Z")}}

\* line 238, chrono::DateTime::parse_from_rfc3339(exp_iso).map(|dt| dt.timestamp())
parse_from_rfc3339(t) ==
  IF t = "2025-01-01T00:00:10Z" THEN Some(1735689610) ELSE None

PlexPinErr(e) ==
  [ok |-> FALSE, error |-> e, id |-> 0, code |-> "", expires_at |-> 0, client_id |-> ""]

\* a create that wants the id, the code and a date that parses
plex_create_result_strict(r) ==
  IF ~r.sent THEN PlexPinErr("send")
  ELSE IF ~r.success THEN PlexPinErr("Plex PIN create failed")
  ELSE IF ~r.json THEN PlexPinErr("json")
  ELSE IF ~IsSome(r.id) THEN PlexPinErr("Missing id")
  ELSE IF ~IsSome(r.code) THEN PlexPinErr("Missing code")
  ELSE IF ~IsSome(r.expires_at) \/ ~IsSome(parse_from_rfc3339(Unwrap(r.expires_at)))
    THEN PlexPinErr("Missing expires_at")
  ELSE [ok |-> TRUE, error |-> "", id |-> Unwrap(r.id), code |-> Unwrap(r.code),
        expires_at |-> Unwrap(parse_from_rfc3339(Unwrap(r.expires_at))),
        client_id |-> "client-12"]

\* lines 229-239: the value cmd_plex_create_pin returns; only the id is
\* asked for, a missing code is "" and a missing or unparseable date is 0
plex_create_result(r) ==
  IF ~r.sent THEN PlexPinErr("send")
  ELSE IF ~r.success THEN PlexPinErr("Plex PIN create failed")
  ELSE IF ~r.json THEN PlexPinErr("json")
  ELSE IF ~IsSome(r.id) THEN PlexPinErr("Missing id")
  ELSE [ok |-> TRUE, error |-> "", id |-> Unwrap(r.id),
        code |-> unwrap_or_default(r.code, ""),
        expires_at |->
          unwrap_or_default(parse_from_rfc3339(unwrap_or_default(r.expires_at, "")), 0),
        client_id |-> "client-12"]

\* cmd_plex_create_pin, lines 225-240
cmd_plex_create_pin ==
  /\ pc["ui"] = "idle"
  /\ uiCmds < MaxCmds
  /\ uiCmds' = uiCmds + 1
  /\ \E r \in PlexPinAnswers :
       pin' = [cmd |-> "cmd_plex_create_pin", answer |-> r, out |-> plex_create_result(r)]
  /\ UNCHANGED <<fsVars, callVars, uiArg, polled, held, saved, taskVars>>

\* What api.simkl.com answers to GET /oauth/pin: no answer, a body that is
\* not JSON of the shape of SimklPinCreate, or one with or without code and
\* user_code
NoSimklPin == [sent |-> TRUE, json |-> FALSE, code |-> None, user_code |-> None]

SimklPinAnswers ==
  {[NoSimklPin EXCEPT !.sent = FALSE], NoSimklPin}
  \cup
  {[NoSimklPin EXCEPT !.json = TRUE, !.code = c, !.user_code = u] :
     c \in {None, Some("C0DE")}, u \in {None, Some("USER")}}

\* lines 399-404 and 407: every parse failure is SimklPinCreate::default(),
\* and a missing code is the user_code
simkl_create_result(r) ==
  IF ~r.sent THEN [ok |-> FALSE, code |-> None, user_code |-> None]
  ELSE [ok |-> TRUE,
        code |-> IF r.json /\ IsSome(r.code) THEN r.code
                 ELSE IF r.json THEN r.user_code ELSE None,
        user_code |-> IF r.json THEN r.user_code ELSE None]

\* cmd_simkl_create_pin, lines 393-408
cmd_simkl_create_pin ==
  /\ pc["ui"] = "idle"
  /\ uiCmds < MaxCmds
  /\ uiCmds' = uiCmds + 1
  /\ \E r \in SimklPinAnswers :
       pin' = [cmd |-> "cmd_simkl_create_pin", answer |-> r, out |-> simkl_create_result(r)]
  /\ UNCHANGED <<fsVars, callVars, uiArg, polled, held, saved, taskVars>>

\* What api.simkl.com answers to GET /oauth/pin/{code}: no answer, a body
\* that is not JSON of the shape of SimklTokenResp, {}, a pending result, or
\* the tokens
NoSimklToken ==
  [sent |-> TRUE, json |-> FALSE, access_token |-> None, refresh_token |-> None,
   expires_in |-> None, result |-> None]

SimklPollAnswers ==
  {[NoSimklToken EXCEPT !.sent = FALSE],
   NoSimklToken,
   [NoSimklToken EXCEPT !.json = TRUE],
   [NoSimklToken EXCEPT !.json = TRUE, !.result = Some("KO")],
   [NoSimklToken EXCEPT !.json = TRUE, !.access_token = Some("dt-1"),
                        !.refresh_token = Some("dr-1"),
                        !.expires_in = Some(I64Of(3600)), !.result = Some("OK")]}

\* lines 413-418: every parse failure is SimklTokenResp::default()
simkl_poll_result(r) ==
  IF ~r.sent
    THEN [ok |-> FALSE, access_token |-> None, refresh_token |-> None,
          expires_in |-> None, result |-> None]
    ELSE [ok |-> TRUE,
          access_token |-> IF r.json THEN r.access_token ELSE None,
          refresh_token |-> IF r.json THEN r.refresh_token ELSE None,
          expires_in |-> IF r.json THEN r.expires_in ELSE None,
          result |-> IF r.json THEN r.result ELSE None]

\* a poll that stores the tokens it was given before it returns
cmd_simkl_poll_pin_persisting ==
  /\ pc["ui"] = "idle"
  /\ uiCmds < MaxCmds
  /\ uiCmds' = uiCmds + 1
  /\ \E r \in SimklPollAnswers :
       /\ pin' = [cmd |-> "cmd_simkl_poll_pin", answer |-> r, out |-> simkl_poll_result(r)]
       /\ fs' = IF IsSome(simkl_poll_result(r).access_token)
                 THEN [fs EXCEPT ![cfg_path] =
                         to_string_pretty(
                           [from_str(fs[cfg_path]).cfg EXCEPT !.simkl =
                              Some([unwrap_or_default(from_str(fs[cfg_path]).cfg.simkl,
                                                      DefaultSimklCfg)
                                      EXCEPT !.access_token =
                                               simkl_poll_result(r).access_token])])]
                 ELSE fs
  /\ UNCHANGED <<writable, callVars, uiArg, polled, held, saved, taskVars>>

\* cmd_simkl_poll_pin, lines 411-419
cmd_simkl_poll_pin ==
  /\ pc["ui"] = "idle"
  /\ uiCmds < MaxCmds
  /\ uiCmds' = uiCmds + 1
  /\ \E r \in SimklPollAnswers :
       pin' = [cmd |-> "cmd_simkl_poll_pin", answer |-> r, out |-> simkl_poll_result(r)]
  /\ UNCHANGED <<fsVars, callVars, uiArg, polled, held, saved, taskVars>>

----------------------------------------------------------------------------
(* cmd_run_sync *)

\* line 356, read_cfg()?, the call
cmd_run_sync ==
  /\ pc["ui"] = "idle"
  /\ uiCmds < MaxCmds
  /\ uiCmds' = uiCmds + 1
  /\ CallReadCfg("ui", "sync_cfg")
  /\ UNCHANGED <<fsVars, rres, wcfg, wres, raw, cand, uiArg, polled, pin, held, saved,
                 taskVars>>

\* lines 356-357: a failed load ends the command, a document is saved again
cmd_run_sync_save ==
  /\ pc["ui"] = "sync_cfg"
  /\ IF rres["ui"].ok
       THEN CallWriteCfg("ui", rres["ui"].cfg, "sync_saved")
       ELSE Goto("ui", "idle") /\ UNCHANGED <<ret, wcfg>>
  /\ rres' = [rres EXCEPT !["ui"] = NoRead]
  /\ UNCHANGED <<fsVars, wres, raw, cand, uiVars, taskVars>>

\* lines 357-361: a failed save ends the command, else the script is started
cmd_run_sync_spawn ==
  /\ pc["ui"] = "sync_saved"
  /\ Goto("ui", IF wres["ui"] THEN "sync_run" ELSE "idle")
  /\ wcfg' = [wcfg EXCEPT !["ui"] = DefaultConfig]
  /\ UNCHANGED <<fsVars, ret, rres, wres, raw, cand, uiVars, taskVars>>

\* lines 361-365: the script has ended, with whatever status
cmd_run_sync_status ==
  /\ pc["ui"] = "sync_run"
  /\ Goto("ui", "idle")
  /\ UNCHANGED <<fsVars, ret, rres, wcfg, wres, raw, cand, uiVars, taskVars>>

----------------------------------------------------------------------------
(* cmd_simkl_start_listener and the task it spawns *)

NoRequest == [received |-> FALSE, parsed |-> FALSE, path |-> "", code |-> None]

\* What server.recv() yields: an error, or a request whose target does or
\* does not parse as a URL, addressed to some path, with or without code=
Requests ==
  {[received |-> FALSE, parsed |-> FALSE, path |-> "", code |-> None],
   [received |-> TRUE, parsed |-> FALSE, path |-> "", code |-> None]}
  \cup
  {[received |-> TRUE, parsed |-> TRUE, path |-> q, code |-> c] :
     q \in {"/callback", "/other"}, c \in {None, Some("abc123")}}

\* What the token endpoint answers: no answer, a failure status, or a body;
\* a body is not JSON, or is JSON that lacks one field of TokResp, or is JSON
\* with the three fields, the expires_in an hour or the largest i64
TokenBodies ==
  {[json |-> FALSE, access_token |-> None, refresh_token |-> None, expires_in |-> None],
   [json |-> TRUE, access_token |-> None, refresh_token |-> Some("rt-1"),
    expires_in |-> Some(I64Of(3600))],
   [json |-> TRUE, access_token |-> Some("at-1"), refresh_token |-> None,
    expires_in |-> Some(I64Of(3600))],
   [json |-> TRUE, access_token |-> Some("at-1"), refresh_token |-> Some("rt-1"),
    expires_in |-> None]}
  \cup
  {[json |-> TRUE, access_token |-> Some("at-1"), refresh_token |-> Some("rt-1"),
    expires_in |-> Some(e)] : e \in {I64Of(3600), I64_MAX}}

NoBody ==
  [json |-> FALSE, access_token |-> None, refresh_token |-> None, expires_in |-> None]

NoResponse == [sent |-> FALSE, success |-> FALSE, body |-> NoBody]

TokenResponses ==
  {NoResponse, [sent |-> TRUE, success |-> FALSE, body |-> NoBody]}
  \cup {[sent |-> TRUE, success |-> TRUE, body |-> b] : b \in TokenBodies}

\* chrono::Utc::now().timestamp(), the readings of the clock
Times == {0, 1}

\* a TokResp whose refresh_token and expires_in may be left out
TokRespParsesLenient(b) == b.json /\ IsSome(b.access_token)

\* line 296, resp.json::<TokResp>(): every field of TokResp is required
TokRespParses(b) ==
  b.json /\ IsSome(b.access_token) /\ IsSome(b.refresh_token) /\ IsSome(b.expires_in)

\* the TokResp a body parses to
TokRespOf(b) ==
  [access_token |-> unwrap_or_default(b.access_token, ""),
   refresh_token |-> unwrap_or_default(b.refresh_token, ""),
   expires_in |-> unwrap_or_default(b.expires_in, I64Of(0))]

\* a check that looks at the client id alone
HasClientId(sim) == sim.client_id # ""

\* line 279: both client credentials are on record
HasClientCredentials(sim) == sim.client_id # "" /\ sim.client_secret # ""

\* a listener that takes a code on the callback path only
CarriesCodeOnCallback(r) == IsSome(r.code) /\ r.path = "/callback"

\* a listener that takes every parsed request for the callback
CarriesCodeAlways(r) == r.parsed

\* lines 273-274: the request carries a code (its path is not looked at)
CarriesCode(r) == IsSome(r.code)

Event(k, e) == [inst |-> inst, ok |-> k, error |-> e]

\* a task that reports failures only
EmitFailureAndEnd(k, e) ==
  /\ events' = IF k THEN events ELSE Append(events, Event(k, e))
  /\ port' = FALSE
  /\ before' = NoFile
  /\ Goto("task", "idle")

\* lines 341-348: the one app.emit of the task, after which the async block
\* ends and the server it owns is dropped
EmitAndEnd(k, e) ==
  /\ events' = Append(events, Event(k, e))
  /\ port' = FALSE
  /\ before' = NoFile
  /\ Goto("task", "idle")

\* a bind that succeeds whether or not the port is taken
BindSucceedsAlways == TRUE

\* line 264, Server::http("127.0.0.1:8787"): the bind succeeds when no
\* listener holds the port
BindSucceeds == ~port

\* line 264-265 and 351: the bind succeeds and the task is spawned
cmd_simkl_start_listener ==
  /\ BindSucceeds
  /\ uiCmds < MaxCmds
  /\ uiCmds' = uiCmds + 1
  /\ port' = TRUE
  /\ inst' = inst + 1
  /\ before' = OnRecord(fs)
  /\ netCalls' = 0
  /\ rq' = NoRequest
  /\ resp' = NoResponse
  /\ Goto("task", "recv")
  /\ UNCHANGED <<fsVars, ret, rres, wcfg, wres, raw, cand, uiArg, polled, pin, held,
                 saved, binds, events>>

\* line 264: Server::http fails while the port is bound, and the command
\* returns the error before anything is spawned
cmd_simkl_start_listener_bind_failed ==
  /\ ~BindSucceeds
  /\ uiCmds < MaxCmds
  /\ uiCmds' = uiCmds + 1
  /\ binds' = binds + 1
  /\ UNCHANGED <<fsVars, callVars, uiArg, polled, pin, held, saved, port, inst, before, rq, resp,
                 netCalls, events>>

\* lines 266-275 and 332-348: server.recv() and what the request leads to
listener_recv ==
  /\ pc["task"] = "recv"
  /\ \E r \in Requests :
       /\ rq' = r
       /\ IF ~r.received THEN
            EmitAndEnd(FALSE, "Listener recv failed") /\ UNCHANGED ret
          ELSE IF ~r.parsed THEN
            EmitAndEnd(FALSE, "Callback parse failed") /\ UNCHANGED ret
          ELSE IF ~CarriesCode(r) THEN
            EmitAndEnd(FALSE, "No code in callback") /\ UNCHANGED ret
          ELSE
            CallReadCfg("task", "l_cfg") /\ UNCHANGED <<port, before, events>>
  /\ UNCHANGED <<fsVars, rres, wcfg, wres, raw, cand, uiVars, inst, binds, resp, netCalls>>

\* lines 276-290 and 318-330: the document read decides whether the token
\* request is sent
listener_cfg ==
  /\ pc["task"] = "l_cfg"
  /\ LET r == rres["task"] IN
       IF ~r.ok THEN
         EmitAndEnd(FALSE, "Config read failed") /\ UNCHANGED netCalls
       ELSE IF ~IsSome(r.cfg.simkl) THEN
         EmitAndEnd(FALSE, "SIMKL not configured") /\ UNCHANGED netCalls
       ELSE IF ~HasClientCredentials(Unwrap(r.cfg.simkl)) THEN
         EmitAndEnd(FALSE, "SIMKL client_id/secret missing") /\ UNCHANGED netCalls
       ELSE
         /\ netCalls' = netCalls + 1
         /\ Goto("task", "l_await")
         /\ UNCHANGED <<port, before, events>>
  /\ rres' = [rres EXCEPT !["task"] = NoRead]
  /\ UNCHANGED <<fsVars, ret, wcfg, wres, raw, cand, uiVars, inst, binds, rq, resp>>

\* lines 292-297 and 306-317: the answer of the token endpoint
listener_token ==
  /\ pc["task"] = "l_await"
  /\ \E a \in TokenResponses :
       /\ resp' = a
       /\ IF ~a.sent THEN
            EmitAndEnd(FALSE, "SIMKL token request failed") /\ UNCHANGED ret
          ELSE IF ~a.success THEN
            EmitAndEnd(FALSE, "SIMKL token exchange failed") /\ UNCHANGED ret
          ELSE IF ~TokRespParses(a.body) THEN
            EmitAndEnd(FALSE, "SIMKL token parse failed") /\ UNCHANGED ret
          ELSE
            CallReadCfg("task", "l_cfg2") /\ UNCHANGED <<port, before, events>>
  /\ UNCHANGED <<fsVars, rres, wcfg, wres, raw, cand, uiVars, inst, binds, rq, netCalls>>

\* lines 297-302: cfg2 with the tokens of tr and the expiry now + expires_in
WithTokens(c, tr, now) ==
  [c EXCEPT !.simkl =
     Some([unwrap_or_default(c.simkl, DefaultSimklCfg) EXCEPT
             !.access_token = Some(tr.access_token),
             !.refresh_token = Some(tr.refresh_token),
             !.token_expires_at = Some(i64_add(I64Of(now), tr.expires_in))])]

\* lines 297-303: read_cfg().unwrap_or_default(), the tokens, write_cfg
listener_persist ==
  /\ pc["task"] = "l_cfg2"
  /\ \E now \in Times :
       CallWriteCfg("task",
                    WithTokens(IF rres["task"].ok THEN rres["task"].cfg ELSE DefaultConfig,
                               TokRespOf(resp.body), now),
                    "l_done")
  /\ rres' = [rres EXCEPT !["task"] = NoRead]
  /\ UNCHANGED <<fsVars, wres, raw, cand, uiVars, taskVars>>

\* lines 303-305 and 341-342: the result of write_cfg is dropped, ok = true
listener_linked ==
  /\ pc["task"] = "l_done"
  /\ EmitAndEnd(TRUE, "")
  /\ wcfg' = [wcfg EXCEPT !["task"] = DefaultConfig]
  /\ UNCHANGED <<fsVars, ret, rres, wres, raw, cand, uiVars, inst, binds, rq, resp,
                 netCalls>>

----------------------------------------------------------------------------
(* The initial states: the files found at start-up *)

Files(c, r, q, t) ==
  [p \in Paths |->
     IF p = cfg_path THEN c
     ELSE IF p = legacy_cfg_candidates[1] THEN r
     ELSE IF p = legacy_cfg_candidates[2] THEN q
     ELSE t]

LegacyDoc == Json(CredsConfig, TRUE)

AllWritable == [p \in {cfg_path, project_root_cfg} |-> TRUE]
Unwritable(q) == [p \in {cfg_path, project_root_cfg} |-> p # q]

\* Start-up states of the store alone: every place a document may be found
\* in, well-formed or not, on a disk that takes the writes or refuses them
StoreInit ==
  { Files(NoFile, NoFile, NoFile, NoFile),
    Files(NoFile, LegacyDoc, NoFile, NoFile),
    Files(NoFile, NoFile, LegacyDoc, NoFile),
    Files(NoFile, NoFile, NoFile, LegacyDoc),
    Files(NoFile, NoFile, LegacyDoc, LegacyDoc),
    Files(NoFile, Garbage, NoFile, NoFile),
    Files(Garbage, NoFile, NoFile, NoFile),
    Files(Json(CredsConfig, FALSE), NoFile, NoFile, NoFile),
    Files(Json(NoSecretConfig, TRUE), NoFile, NoFile, NoFile),
    Files(Json(CredsConfig, FALSE), NoFile, NoFile, LegacyDoc) }
  \X {AllWritable, Unwritable(cfg_path), Unwritable(project_root_cfg)}

\* Start-up states of the whole program
ProgramInit ==
  { <<Files(NoFile, NoFile, NoFile, NoFile), AllWritable>>,
    <<Files(NoFile, NoFile, NoFile, LegacyDoc), AllWritable>>,
    <<Files(Json(CredsConfig, FALSE), NoFile, NoFile, NoFile), AllWritable>>,
    <<Files(Json(NoSecretConfig, FALSE), NoFile, NoFile, NoFile), AllWritable>>,
    <<Files(Json(CredsConfig, FALSE), NoFile, NoFile, NoFile), Unwritable(cfg_path)>>,
    <<Files(Json(CredsConfig, FALSE), NoFile, NoFile, NoFile), Unwritable(project_root_cfg)>> }

\* Start-up states for the flows: a document to migrate, an unreadable one,
\* one without the client secret, one that is complete, one that is complete
\* in a file that cannot be written
FlowsInit ==
  { <<Files(NoFile, NoFile, NoFile, NoFile), AllWritable>>,
    <<Files(NoFile, NoFile, NoFile, LegacyDoc), AllWritable>>,
    <<Files(NoFile, NoFile, LegacyDoc, NoFile), AllWritable>>,
    <<Files(NoFile, NoFile, LegacyDoc, NoFile), Unwritable(cfg_path)>>,
    <<Files(NoFile, Garbage, NoFile, NoFile), AllWritable>>,
    <<Files(Garbage, NoFile, NoFile, NoFile), AllWritable>>,
    <<Files(NoFile, NoFile, Json(NoSecretConfig, TRUE), NoFile), AllWritable>>,
    <<Files(Json(CredsConfig, FALSE), NoFile, NoFile, NoFile), AllWritable>>,
    <<Files(Json(CredsConfig, FALSE), NoFile, NoFile, NoFile), Unwritable(cfg_path)>> }

InitWith(starts) ==
  /\ \E st \in starts : fs = st[1] /\ writable = st[2]
  /\ pc = [p \in Procs |-> "idle"]
  /\ ret = [p \in Procs |-> "idle"]
  /\ rres = [p \in Procs |-> NoRead]
  /\ wcfg = [p \in Procs |-> DefaultConfig]
  /\ wres = [p \in Procs |-> TRUE]
  /\ raw = [p \in Procs |-> NoFile]
  /\ cand = [p \in Procs |-> <<>>]
  /\ uiArg = NoFile
  /\ polled = PollErr
  /\ pin = NoPin
  /\ held = None
  /\ saved = None
  /\ uiCmds = 0
  /\ port = FALSE
  /\ inst = 0
  /\ before = NoFile
  /\ binds = 0
  /\ rq = NoRequest
  /\ resp = NoResponse
  /\ netCalls = 0
  /\ events = <<>>

Init == InitWith(ProgramInit)

InitStore == InitWith(StoreInit)

InitFlows == InitWith(FlowsInit)

\* The commands that load and save the document, and the listener, running
\* side by side
Next ==
  \/ \E p \in Procs : read_cfg_canon(p)
  \/ \E p \in Procs : read_cfg_legacy(p)
  \/ \E p \in Procs : read_cfg_write(p)
  \/ \E p \in Procs : read_cfg_fill(p)
  \/ \E p \in Procs : read_cfg_mirror(p)
  \/ \E p \in Procs : read_cfg_mirror_fill(p)
  \/ \E p \in Procs : read_cfg_remove(p)
  \/ \E p \in Procs : write_cfg_write(p)
  \/ \E p \in Procs : write_cfg_fill(p)
  \/ \E p \in Procs : write_cfg_mirror(p)
  \/ \E p \in Procs : write_cfg_mirror_fill(p)
  \/ \E p \in Procs : write_cfg_remove(p)
  \/ cmd_read_config
  \/ cmd_read_config_ret
  \/ cmd_write_config
  \/ cmd_write_config_ret
  \/ cmd_simkl_start_listener
  \/ cmd_simkl_start_listener_bind_failed
  \/ listener_recv
  \/ listener_cfg
  \/ listener_token
  \/ listener_persist
  \/ listener_linked

Spec == Init /\ [][Next]_vars

\* The store and the commands of the front end, with no listener running
NextStore ==
  \/ read_cfg_canon("ui")
  \/ read_cfg_legacy("ui")
  \/ read_cfg_write("ui")
  \/ read_cfg_fill("ui")
  \/ read_cfg_mirror("ui")
  \/ read_cfg_mirror_fill("ui")
  \/ read_cfg_remove("ui")
  \/ write_cfg_write("ui")
  \/ write_cfg_fill("ui")
  \/ write_cfg_mirror("ui")
  \/ write_cfg_mirror_fill("ui")
  \/ write_cfg_remove("ui")
  \/ cmd_read_config
  \/ cmd_read_config_ret
  \/ cmd_write_config
  \/ cmd_write_config_ret
  \/ cmd_plex_poll_pin
  \/ cmd_plex_create_pin
  \/ cmd_simkl_create_pin
  \/ cmd_simkl_poll_pin
  \/ cmd_run_sync
  \/ cmd_run_sync_save
  \/ cmd_run_sync_spawn
  \/ cmd_run_sync_status

SpecStore == InitStore /\ [][NextStore]_vars

\* The listener and the service-A PIN commands, the front end neither loading nor
\* saving the document meanwhile
NextFlows ==
  \/ read_cfg_canon("task")
  \/ read_cfg_legacy("task")
  \/ read_cfg_write("task")
  \/ read_cfg_fill("task")
  \/ read_cfg_mirror("task")
  \/ read_cfg_mirror_fill("task")
  \/ read_cfg_remove("task")
  \/ write_cfg_write("task")
  \/ write_cfg_fill("task")
  \/ write_cfg_mirror("task")
  \/ write_cfg_mirror_fill("task")
  \/ write_cfg_remove("task")
  \/ cmd_plex_create_pin
  \/ cmd_plex_poll_pin
  \/ cmd_simkl_start_listener
  \/ cmd_simkl_start_listener_bind_failed
  \/ listener_recv
  \/ listener_cfg
  \/ listener_token
  \/ listener_persist
  \/ listener_linked

SpecFlows == InitFlows /\ [][NextFlows]_vars

----------------------------------------------------------------------------
(* What the claims speak of *)

CanonDoc == fs[cfg_path]

\* the service-A token in the canonical file, None when it holds none
CanonPlexToken ==
  IF CanonDoc.kind = "json" /\ IsSome(CanonDoc.cfg.plex)
    THEN Unwrap(CanonDoc.cfg.plex).account_token
    ELSE None

\* the service-B block in the canonical file, the default when it holds none
CanonSimkl ==
  IF CanonDoc.kind = "json" THEN unwrap_or_default(CanonDoc.cfg.simkl, DefaultSimklCfg)
                            ELSE DefaultSimklCfg

\* the last listener instance received a well-formed request without code=
NoCodeRequest == rq.received /\ rq.parsed /\ ~IsSome(rq.code)

----------------------------------------------------------------------------
(* C1 *)

\* C1 as stated: after a request without a code parameter the listener is
\* still bound and still waiting for a request
C1_KeepsWaiting == NoCodeRequest => (pc["task"] = "recv" /\ port)

\* C1 amended: a request without a code parameter ends the listener: the
\* task is over, the port is released, and the instance's one event is the
\* failure "No code in callback"
C1_NoCodeEnds ==
  NoCodeRequest =>
    /\ pc["task"] = "idle"
    /\ ~port
    /\ Len(events) = inst
    /\ events[inst] = [inst |-> inst, ok |-> FALSE, error |-> "No code in callback"]

C1_Witness == NoCodeRequest /\ rq.path = "/callback" /\ Len(events) = 1

----------------------------------------------------------------------------
(* C2 *)

\* C2 as stated: once a poll has returned a non-empty token, the canonical
\* document holds that token as plex.account_token
C2_PersistedOnReturn ==
  (polled.ok /\ polled.token # "") => CanonPlexToken = Some(polled.token)

\* a step of cmd_plex_poll_pin: a command was counted, no thread moved, no
\* other PIN command returned, and no listener was started or refused
PollStep ==
  /\ pc["ui"] = "idle"
  /\ uiCmds' = uiCmds + 1
  /\ pc' = pc
  /\ pin' = pin
  /\ port' = port
  /\ binds' = binds

\* C2 amended: a poll hands the token to its caller and writes no file: every
\* file is after the poll what it was before it
C2_PollWritesNothing == [][PollStep => fs' = fs]_vars

C2_Witness ==
  polled.ok /\ polled.token = "tok-1" /\ CanonPlexToken # Some("tok-1")

----------------------------------------------------------------------------
(* C3 *)

\* the front end has saved a document carrying its service-A token, the
\* listener has reported a successful exchange, and both are at rest
BothFlowsDone ==
  /\ pc["ui"] = "idle"
  /\ pc["task"] = "idle"
  /\ writable[cfg_path]
  /\ IsSome(saved)
  /\ IsSome(Unwrap(saved).cfg.plex)
  /\ Len(events) > 0
  /\ events[Len(events)].ok

\* C3: after both flows have finished the canonical document holds the
\* service-A token of the one and the service-B tokens of the other
C3_NoLostWrite ==
  BothFlowsDone =>
    /\ CanonPlexToken = Unwrap(Unwrap(saved).cfg.plex).account_token
    /\ CanonSimkl.access_token = Some("at-1")
    /\ CanonSimkl.refresh_token = Some("rt-1")

----------------------------------------------------------------------------
(* C4 *)

\* C4: no read_cfg ever parses the canonical file in its truncated state
C4_NoTornRead == \A p \in Procs : rres[p].saw # "empty"

----------------------------------------------------------------------------
(* C5 *)

----------------------------------------------------------------------------
(* C6 *)

\* the front end's read_cfg has just returned a document it took from a
\* legacy candidate
Migrated ==
  /\ pc["ui"] = "read_config_ret"
  /\ rres["ui"].ok
  /\ rres["ui"].from \in LegacyPaths

\* C6 as stated: after the migrating load the canonical file holds the
\* document returned and no legacy location holds a file any more
C6_LegacyRemoved ==
  Migrated =>
    /\ CanonDoc.kind = "json"
    /\ CanonDoc.cfg = rres["ui"].cfg
    /\ \A q \in LegacyPaths : ~Exists(fs, q)

\* C6 amended: the migrating load copies the legacy text unchanged to the
\* canonical path and, when that file can be written, to config.json, and
\* returns its document; it removes the file it read only when that is
\* the src-tauri candidate, any other candidate keeps its file
C6_MigratesAndMirrors ==
  Migrated =>
    /\ CanonDoc = LegacyDoc
    /\ CanonDoc.cfg = rres["ui"].cfg
    /\ writable[project_root_cfg] => fs[project_root_cfg] = CanonDoc
    /\ ContainsSrcTauri(rres["ui"].from) => ~Exists(fs, rres["ui"].from)
    /\ ~ContainsSrcTauri(rres["ui"].from) => fs[rres["ui"].from] = CanonDoc

C6_Witness ==
  /\ Migrated
  /\ rres["ui"].from = legacy_cfg_candidates[2]
  /\ Exists(fs, legacy_cfg_candidates[2])
  /\ Exists(fs, project_root_cfg)

----------------------------------------------------------------------------
(* C7 *)

\* C7: a load that follows a save returns the document that was saved, the
\* fields Config does not name included
C7_RoundTrip ==
  (pc["ui"] = "read_config_ret" /\ IsSome(saved)) =>
    /\ rres["ui"].ok
    /\ Json(rres["ui"].cfg, FALSE) = Unwrap(saved)

----------------------------------------------------------------------------
(* C8 *)

NoLegacyFile == \A q \in LegacyPaths : ~Exists(fs, q)

\* C8 as stated: a read_cfg that found no file at the canonical path returns
\* a document, never an error
C8_MissingNeverFails ==
  \A p \in Procs :
    (rres[p].saw # "unread" /\ rres[p].from # cfg_path) => rres[p].ok

\* C8 amended: with no file at the canonical path and none at any legacy
\* candidate read_cfg returns the all-default document and writes nothing;
\* with a legacy candidate it fails only if that file does not parse or the
\* canonical copy cannot be written
C8_DefaultsWhenNothing ==
  /\ [][\A p \in Procs :
          (pc[p] = "rc_legacy" /\ pc'[p] # "rc_legacy" /\ NoLegacyFile) =>
            (rres'[p].ok /\ rres'[p].cfg = DefaultConfig /\ fs' = fs)]_vars
  /\ [](\A p \in Procs :
          (rres[p].from \in LegacyPaths /\ ~rres[p].ok) =>
            (rres[p].saw # "json" \/ ~writable[cfg_path]))

C8_Witness ==
  /\ pc["ui"] = "read_config_ret"
  /\ rres["ui"].ok
  /\ rres["ui"].from = <<>>
  /\ rres["ui"].cfg = DefaultConfig
  /\ ~Exists(fs, cfg_path)

----------------------------------------------------------------------------
(* C9 *)

MissingCredentials(c) ==
  \/ ~IsSome(c.simkl)
  \/ Unwrap(c.simkl).client_id = ""
  \/ Unwrap(c.simkl).client_secret = ""

\* C9: when the document the listener read for a code has no service-B
\* block or an empty client id or secret, the task ends with a failure
\* event that names the missing configuration and the instance has issued no
\* token request
C9_FailsFast ==
  [][(/\ pc["task"] = "l_cfg"
      /\ pc'["task"] # "l_cfg"
      /\ rres["task"].ok
      /\ MissingCredentials(rres["task"].cfg)) =>
       /\ pc'["task"] = "idle"
       /\ netCalls' = 0
       /\ Len(events') = inst
       /\ ~events'[inst].ok
       /\ events'[inst].error \in {"SIMKL not configured", "SIMKL client_id/secret missing"}]_vars

C9_Witness ==
  /\ pc["task"] = "idle"
  /\ Len(events) = inst
  /\ inst > 0
  /\ events[inst].error = "SIMKL client_id/secret missing"
  /\ CanonSimkl.client_id # ""
  /\ CanonSimkl.client_secret = ""
  /\ netCalls = 0

----------------------------------------------------------------------------
(* C10 *)

LacksField(b) ==
  /\ b.json
  /\ ~IsSome(b.access_token) \/ ~IsSome(b.refresh_token) \/ ~IsSome(b.expires_in)

\* C10: a success answer whose body lacks access_token, refresh_token or
\* expires_in ends the task with the failure "SIMKL token parse failed" and
\* leaves every file as it was
C10_HardFailure ==
  [][(/\ pc["task"] = "l_await"
      /\ pc'["task"] # "l_await"
      /\ resp'.sent
      /\ resp'.success
      /\ LacksField(resp'.body)) =>
       /\ fs' = fs
       /\ pc'["task"] = "idle"
       /\ Len(events') = inst
       /\ events'[inst] = [inst |-> inst, ok |-> FALSE, error |-> "SIMKL token parse failed"]]_vars

C10_Witness ==
  /\ pc["task"] = "idle"
  /\ resp.success
  /\ LacksField(resp.body)
  /\ IsSome(resp.body.access_token)
  /\ Len(events) = inst
  /\ events[inst].error = "SIMKL token parse failed"
  /\ CanonSimkl.access_token = None

----------------------------------------------------------------------------
(* C11 *)

\* document b differs from document a in nothing but the three token fields
\* of the service-B block
SameButTokens(a, b) ==
  /\ b.plex = a.plex
  /\ b.sync = a.sync
  /\ b.runtime = a.runtime
  /\ unwrap_or_default(b.simkl, DefaultSimklCfg).client_id
       = unwrap_or_default(a.simkl, DefaultSimklCfg).client_id
  /\ unwrap_or_default(b.simkl, DefaultSimklCfg).client_secret
       = unwrap_or_default(a.simkl, DefaultSimklCfg).client_secret

\* C11: the document a successful exchange writes differs from the document
\* on record at the moment it is written in the three token fields only:
\* the client id and secret and the plex, sync and runtime blocks are kept
C11_OnlyTokensChange ==
  [][(/\ pc["task"] = "wc_write"
      /\ pc'["task"] = "wc_fill"
      /\ CanonDoc.kind = "json") =>
       SameButTokens(CanonDoc.cfg, raw'["task"].cfg)]_vars

----------------------------------------------------------------------------
(* C12 *)

\* C12: the expiry a successful exchange hands to write_cfg is the sum, as
\* integers, of a reading t of the clock and the expires_in of the answer
C12_ExactExpiry ==
  [][(pc["task"] = "l_cfg2" /\ pc'["task"] = "wc_write") =>
       \E t \in Times :
         Unwrap(wcfg'["task"].simkl).token_expires_at
           = Some(ExactSum(I64Of(t), Unwrap(resp.body.expires_in)))]_vars

----------------------------------------------------------------------------
(* C13 *)

\* the task reports a failure in this step
FailureReported ==
  /\ Len(events') = Len(events) + 1
  /\ ~events'[Len(events')].ok

\* C13: when the listener's task reports a failure, whichever it is, the
\* text on record is the text that was on record when the listener was
\* started, and a service-A PIN create or poll that fails leaves every file
\* as it was
C13_FailureKeepsDocument ==
  [][/\ FailureReported => OnRecord(fs') = before
     /\ (cmd_plex_create_pin /\ ~pin'.out.ok) => fs' = fs
     /\ (cmd_plex_poll_pin /\ ~polled'.ok) => fs' = fs]_vars

C13_Witness ==
  /\ pc["task"] = "idle"
  /\ Len(events) = 1
  /\ events[1].error = "SIMKL token exchange failed"
  /\ fs[cfg_path] = LegacyDoc
  /\ ~Exists(fs, legacy_cfg_candidates[3])
  /\ pin.cmd = "cmd_plex_create_pin"
  /\ ~pin.out.ok

----------------------------------------------------------------------------
(* C14 *)

PinCreated == pin.cmd = "cmd_plex_create_pin" /\ pin.out.ok

\* C14 as stated: cmd_plex_create_pin returns a pin only when the answer is
\* a success that carries id, code and expires_at
C14_FailsOnMissingField ==
  PinCreated =>
    /\ pin.answer.success
    /\ IsSome(pin.answer.id)
    /\ IsSome(pin.answer.code)
    /\ IsSome(pin.answer.expires_at)

\* C14 amended: cmd_plex_create_pin fails exactly when the request is not
\* answered, the status is no success, the body is not JSON or the pin has
\* no id; otherwise it returns a pin whose code is the answer's or "" and
\* whose expires_at is the epoch of the answer's date or 0
C14_FailsOnMissingId ==
  pin.cmd = "cmd_plex_create_pin" =>
    /\ pin.out.ok <=>
         (pin.answer.sent /\ pin.answer.success /\ pin.answer.json /\ IsSome(pin.answer.id))
    /\ pin.out.ok =>
         /\ pin.out.id = Unwrap(pin.answer.id)
         /\ pin.out.code = (IF IsSome(pin.answer.code) THEN Unwrap(pin.answer.code) ELSE "")
         /\ pin.out.expires_at =
              (IF pin.answer.expires_at = Some("2025-01-01T00:00:10Z")
                 THEN 1735689610 ELSE 0)

C14_Witness ==
  /\ PinCreated
  /\ ~IsSome(pin.answer.code)
  /\ pin.answer.expires_at = Some("next week")
  /\ pin.out.code = ""
  /\ pin.out.expires_at = 0

----------------------------------------------------------------------------
(* C15 *)

\* text s is a document that carries the device-flow access token
CarriesDeviceToken(s) ==
  /\ s.kind = "json"
  /\ unwrap_or_default(s.cfg.simkl, DefaultSimklCfg).access_token = Some("dt-1")

\* the device-flow token is in a file, or in the text the front end's
\* read_cfg or write_cfg is writing
DeviceTokenStored ==
  \/ \E q \in Paths : CarriesDeviceToken(fs[q])
  \/ CarriesDeviceToken(raw["ui"])

\* C15: cmd_simkl_create_pin and cmd_simkl_poll_pin leave every file as it
\* was, whatever the answer; and the step by which a device-flow token comes
\* to be stored is the first write of a cmd_write_config whose argument
\* carries that token
C15_NeverAutoPersists ==
  /\ [][(cmd_simkl_create_pin \/ cmd_simkl_poll_pin) => fs' = fs]_vars
  /\ [][(~DeviceTokenStored /\ DeviceTokenStored') =>
          /\ pc["ui"] = "wc_write"
          /\ ret["ui"] = "write_config_ret"
          /\ CarriesDeviceToken(uiArg)]_vars

C15_Witness ==
  /\ HoldsDeviceToken
  /\ pc["ui"] = "idle"
  /\ CanonDoc.kind = "json"
  /\ CanonSimkl.access_token = None

\* the explicit save: the device-flow token is in the canonical file
C15_SavedWitness == CanonSimkl.access_token = Some("dt-1") /\ pc["ui"] = "idle"

----------------------------------------------------------------------------
(* C16 *)

\* C16: a listener is started only while the port is free; a start that
\* finds the port taken is refused and neither moves a thread, nor emits an
\* event, nor counts as an instance, nor frees the port; and the instances
\* started and not yet ended are one while the port is bound, none otherwise
C16_OneListener ==
  /\ [][inst' # inst => (~port /\ port' /\ inst' = inst + 1)]_vars
  /\ [][binds' # binds =>
          (port /\ port' /\ pc' = pc /\ events' = events /\ inst' = inst /\ fs' = fs)]_vars
  /\ [](inst - Len(events) = (IF port THEN 1 ELSE 0))
  /\ [](port <=> pc["task"] # "idle")

C16_Witness ==
  /\ binds = 1
  /\ inst = 1
  /\ port
  /\ pc["task"] = "recv"
  /\ events = <<>>

----------------------------------------------------------------------------
(* C17 *)

\* the last listener instance received a well-formed request for a path
\* other than the callback path
OtherPathRequest == rq.received /\ rq.parsed /\ rq.path # "/callback"

\* C17 as stated: after a request for another path the listener is still
\* bound and waiting, and has issued no token request
C17_CallbackPathOnly ==
  OtherPathRequest => (pc["task"] = "recv" /\ port /\ netCalls = 0)

\* C17 amended: the path of the request is not looked at: a request for any
\* other path that carries a code goes on to the load of the document and
\* the exchange, and one without a code ends the listener with the failure
\* "No code in callback"
C17_PathIgnored ==
  [][(/\ pc["task"] = "recv"
      /\ pc'["task"] # "recv"
      /\ rq'.received /\ rq'.parsed /\ rq'.path # "/callback") =>
       IF IsSome(rq'.code)
         THEN pc'["task"] = "rc_canon" /\ ret'["task"] = "l_cfg" /\ port'
         ELSE /\ pc'["task"] = "idle"
              /\ ~port'
              /\ events' = Append(events, [inst |-> inst, ok |-> FALSE,
                                           error |-> "No code in callback"])]_vars

C17_Witness ==
  /\ OtherPathRequest
  /\ IsSome(rq.code)
  /\ netCalls = 1
  /\ pc["task"] = "idle"
  /\ events[Len(events)].ok
  /\ CanonSimkl.access_token = Some("at-1")

----------------------------------------------------------------------------
(* C18 *)

\* C18: while the sync script runs, the canonical file and the mirror
\* config.json hold the same parseable document
C18_DocumentReady ==
  pc["ui"] = "sync_run" =>
    /\ CanonDoc.kind = "json"
    /\ fs[project_root_cfg] = CanonDoc

----------------------------------------------------------------------------
(* C19 *)

\* C19: when the task reports ok = true, the canonical file holds the access
\* and refresh token of the answer
C19_OkMeansPersisted ==
  [][(/\ Len(events') = Len(events) + 1
      /\ events'[Len(events')].ok) =>
       /\ fs'[cfg_path].kind = "json"
       /\ unwrap_or_default(fs'[cfg_path].cfg.simkl, DefaultSimklCfg).access_token
            = resp.body.access_token
       /\ unwrap_or_default(fs'[cfg_path].cfg.simkl, DefaultSimklCfg).refresh_token
            = resp.body.refresh_token]_vars

----------------------------------------------------------------------------
(* C20 *)

\* a save of the front end and a save of the task have both run to their end
\* on a disk that takes every write, and no thread is at work
SavesCompleted ==
  /\ pc["ui"] = "idle"
  /\ pc["task"] = "idle"
  /\ writable = AllWritable
  /\ IsSome(saved)
  /\ Len(events) > 0
  /\ events[Len(events)].ok

\* C20: once the saves have completed, the canonical file and the mirror
\* config.json hold the same document
C20_MirrorAgrees == SavesCompleted => fs[project_root_cfg] = CanonDoc

====
